---- MODULE Spec2Model ----
(***************************************************************************)
(* CodexCLI (src/src/main.rs): the code execution and recovery engine.     *)
(*                                                                         *)
(* execute_code_block, the environment provisioners and the two error      *)
(* handlers, as a state machine over the process's working directory, the  *)
(* directories and files on disk, and the call stack of execute_code_block *)
(* (handle_python_error re-enters it).  Every child process the code waits *)
(* on is a nondeterministic choice over the outcomes the code tells apart: *)
(* could not be spawned, exited zero, exited non-zero (with its stderr).   *)
(* Strings are TLA+ strings; contains, split, trim and to_lowercase are    *)
(* computed character by character.                                        *)
(***************************************************************************)
EXTENDS Integers, Sequences, FiniteSets, TLC

(***************************************************************************)
(* Bounds of the model.                                                    *)
(***************************************************************************)
\* nested re-entries of execute_code_block the model follows (the code has no bound)
MaxDepth == 2
\* top-level calls of execute_code_block in one session
MaxCalls == 1
\* direct calls of a provisioner in the provisioner-only specification
MaxProvCalls == 2
\* lines of a response given to extract_code_blocks on its own
MaxLines == 4
\* prompts of one session that go to the AI backend
MaxPrompts == 1

(***************************************************************************)
(* str: the string methods the code uses.                                  *)
(***************************************************************************)
\* the character at position i, as a one-character string
CharAt(s, i) == SubSeq(s, i, i)

\* str::starts_with
StartsWith(s, p) == Len(p) <= Len(s) /\ SubSeq(s, 1, Len(p)) = p

\* the suffix of s from position i on
Drop(s, i) == SubSeq(s, i, Len(s))

\* position of the first occurrence of p in s, 0 when there is none
FindFirst(s, p) ==
    LET hits == {i \in 1..(Len(s) - Len(p) + 1) : SubSeq(s, i, i + Len(p) - 1) = p}
    IN  IF hits = {} THEN 0 ELSE CHOOSE i \in hits : \A j \in hits : i <= j

\* str::contains
Contains(s, p) == FindFirst(s, p) # 0

\* str::split(p): the pieces of s between the non-overlapping occurrences of p
RECURSIVE Split(_, _)
Split(s, p) ==
    LET i == FindFirst(s, p)
    IN  IF i = 0 THEN <<s>>
        ELSE <<SubSeq(s, 1, i - 1)>> \o Split(Drop(s, i + Len(p)), p)

\* Iterator::nth(n) (0-based) as an Option: <<>> is None, <<x>> is Some(x)
Nth(seq, n) == IF n + 1 <= Len(seq) THEN <<seq[n + 1]>> ELSE <<>>

\* char::is_whitespace, on the characters the fragments use
IsWhitespace(c) == c \in {" ", "\n", "\t", "\r"}

\* str::trim_start
RECURSIVE TrimStart(_)
TrimStart(s) ==
    IF Len(s) > 0 /\ IsWhitespace(CharAt(s, 1)) THEN TrimStart(Drop(s, 2)) ELSE s

\* str::trim_end
RECURSIVE TrimEnd(_)
TrimEnd(s) ==
    IF Len(s) > 0 /\ IsWhitespace(CharAt(s, Len(s)))
    THEN TrimEnd(SubSeq(s, 1, Len(s) - 1)) ELSE s

\* str::trim
Trim(s) == TrimEnd(TrimStart(s))

\* str::split_whitespace: the maximal runs of non-whitespace characters
RECURSIVE SplitWhitespace(_)
SplitWhitespace(s) ==
    LET t == TrimStart(s)
        ws == {i \in 1..Len(t) : IsWhitespace(CharAt(t, i))}
        e == IF ws = {} THEN Len(t) + 1 ELSE CHOOSE i \in ws : \A j \in ws : i <= j
    IN  IF t = "" THEN <<>>
        ELSE <<SubSeq(t, 1, e - 1)>> \o SplitWhitespace(Drop(t, e))

\* TrimStartMatches removing one occurrence of the prefix only
TrimStartMatches_Once(s, p) == IF StartsWith(s, p) THEN Drop(s, Len(p) + 1) ELSE s

\* str::trim_start_matches: every repeated occurrence of the prefix is removed
RECURSIVE TrimStartMatches(_, _)
TrimStartMatches(s, p) ==
    IF p # "" /\ StartsWith(s, p) THEN TrimStartMatches(Drop(s, Len(p) + 1), p) ELSE s

UpperChars == "ABCDEFGHIJKLMNOPQRSTUVWXYZ"
LowerChars == "abcdefghijklmnopqrstuvwxyz"

\* char::to_lowercase on ASCII
LowerChar(c) ==
    LET i == FindFirst(UpperChars, c)
    IN  IF Len(c) = 1 /\ i # 0 THEN CharAt(LowerChars, i) ELSE c

\* ToLowercase leaving every character as it is
ToLowercase_Identity(s) == s

\* str::to_lowercase
RECURSIVE ToLowercase(_)
ToLowercase(s) ==
    IF s = "" THEN "" ELSE LowerChar(CharAt(s, 1)) \o ToLowercase(Drop(s, 2))

DigitChars == "0123456789"

\* the value of a decimal digit character, -1 for any other character
DigitVal(c) ==
    LET i == FindFirst(DigitChars, c) IN IF Len(c) = 1 /\ i # 0 THEN i - 1 ELSE -1

\* the largest u16
U16Max == 65535

\* str::parse::<u16>().ok(): an optional '+', then decimal digits, no overflow
RECURSIVE ParseDigits(_, _)
ParseDigits(s, acc) ==
    IF s = "" THEN <<acc>>
    ELSE LET d == DigitVal(CharAt(s, 1))
         IN  IF d < 0 \/ acc * 10 + d > U16Max THEN <<>>
             ELSE ParseDigits(Drop(s, 2), acc * 10 + d)

ParseU16(s) ==
    LET body == IF StartsWith(s, "+") THEN Drop(s, 2) ELSE s
    IN  IF body = "" THEN <<>> ELSE ParseDigits(body, 0)

\* u16::to_string
RECURSIVE NatToString(_)
NatToString(n) ==
    IF n < 10 THEN CharAt(DigitChars, n + 1)
    ELSE NatToString(n \div 10) \o CharAt(DigitChars, (n % 10) + 1)

\* Option::unwrap_or
UnwrapOr(opt, dflt) == IF opt = <<>> THEN dflt ELSE opt[1]

(***************************************************************************)
(* Paths: the working directory is an absolute path, a sequence of         *)
(* components; the root is <<>>.                                           *)
(***************************************************************************)
\* the components of a path string
RECURSIVE PathComponents(_)
PathComponents(p) ==
    LET i == FindFirst(p, "/")
    IN  IF p = "" THEN <<>>
        ELSE IF i = 0 THEN <<p>>
        ELSE (IF i = 1 THEN <<>> ELSE <<SubSeq(p, 1, i - 1)>>)
             \o PathComponents(Drop(p, i + 1))

\* one component applied to an absolute path, as the operating system resolves it
Step(base, c) ==
    IF c = "." THEN base
    ELSE IF c = ".." THEN (IF base = <<>> THEN <<>> ELSE SubSeq(base, 1, Len(base) - 1))
    ELSE Append(base, c)

RECURSIVE Walk(_, _)
Walk(base, comps) ==
    IF comps = <<>> THEN base ELSE Walk(Step(base, Head(comps)), Tail(comps))

\* the absolute path that p names when the working directory is base
Resolve(base, p) ==
    Walk(IF StartsWith(p, "/") THEN <<>> ELSE base, PathComponents(p))

\* fs::create_dir_all: the directory and every missing ancestor
CreateDirAll(ds, path) == ds \cup {SubSeq(path, 1, n) : n \in 0..Len(path)}

\* a file of the working directory
FileKey(dir, name) == <<dir, name>>

\* PutFile writing the content without its leading and trailing whitespace
PutFile_Trimmed(fs, key, content) ==
    [k \in DOMAIN fs \cup {key} |-> IF k = key THEN Trim(content) ELSE fs[k]]

\* File::create + write_all: the file holds the content
PutFile(fs, key, content) ==
    [k \in DOMAIN fs \cup {key} |-> IF k = key THEN content ELSE fs[k]]

\* RemoveFile leaving the file where it is
RemoveFile_Keeps(fs, key) == fs

\* fs::remove_file, its error ignored
RemoveFile(fs, key) == [k \in DOMAIN fs \ {key} |-> fs[k]]

(***************************************************************************)
(* Values.                                                                 *)
(***************************************************************************)
\* Result<String, String>
Ok(v) == [ok |-> TRUE, val |-> v]
Err(v) == [ok |-> FALSE, val |-> v]

\* io::Error::to_string() of a command that could not be spawned
SpawnError == "No such file or directory (os error 2)"
\* io::Error::to_string() of a directory or file that could not be created
CreateError == "Permission denied (os error 13)"
\* io::Error::to_string() of a write that failed after the file was created
WriteError == "No space left on device (os error 28)"
\* ExitStatus's Display of a non-zero exit
ExitStatus == "exit status: 1"

(***************************************************************************)
(* Inputs.                                                                 *)
(***************************************************************************)
\* fragment texts: code to run, and the three meta-directives
Fragments ==
    {"import requests\n", "create-react-app\n", "npm start", " start-server 9090\n"}

\* language tags, inside and outside the alias table
Tags == {"Python", "js", "ts", "rs", "sh", "html", "ruby", ""}

\* --workdir: None, or Some(path)
Workdirs == {<<>>, <<"proj">>, <<"a/b">>, <<".">>, <<"/srv">>}

\* the directory the program is started in
StartDir == <<"home">>

\* stderr of a failed Python run
Diagnostics ==
    {"ModuleNotFoundError: No module named 'requests'",
     "ImportError: No module named 'cv2'",
     "ModuleNotFoundError: numpy is required",
     "ModuleNotFoundError raised after EOFError: EOF when reading a line",
     "EOFError: EOF when reading a line",
     "SyntaxError: invalid syntax"}

\* stdout of a successful Python run
Stdouts == {"42\n", ""}

\* stderr of a failed rustc run
CompilerDiagnostics == {"error[E0425]: cannot find value x in this scope"}

(***************************************************************************)
(* State.                                                                  *)
(***************************************************************************)
VARIABLES
    pc,        \* the point the engine is at; "idle" between calls
    stack,     \* the frames of execute_code_block, the innermost last
    cwd,       \* the process's current working directory
    dirs,      \* the directories on disk
    files,     \* the files on disk: <<directory, name>> -> content
    trace,     \* the child processes the current top-level call tried to start
    res,       \* the result of the innermost frame's dispatch closure, once it has one
    result,    \* what the last top-level call returned
    calls,     \* top-level calls made so far
    workdir,   \* the session's working-directory override
    last,      \* the arguments of the last top-level call
    pre,       \* cwd, dirs and files when the last top-level call started
    pkg,       \* the package name handle_python_error extracted
    pkgIdx,    \* setup_python_environment: index of the package being upgraded
    attempts,  \* setup_python_environment: failed attempts for that package
    envCmds,   \* environment-creation commands run by the provisioner call in progress
    procs,     \* all child processes run by the provisioner call in progress
    provPre,   \* dirs and files when the provisioner call in progress started
    provCalls, \* direct provisioner calls made so far
    provLog,   \* what each direct provisioner call did
    tries,     \* the upgrade attempts of the direct provisioner call in progress
    input,     \* the argument of the function applied on its own
    output,    \* what that function returned, once applied
    blocks,    \* process_prompt: the blocks of the response being executed
    executed,  \* process_prompt: how many of them were passed to execute_code_block
    reports,   \* process_prompt: what was printed for each block that returned
    prompts    \* main: prompts processed so far

vars == <<pc, stack, cwd, dirs, files, trace, res, result, calls, workdir, last, pre,
          pkg, pkgIdx, attempts, envCmds, procs, provPre, provCalls, provLog, tries,
          input, output, blocks, executed, reports, prompts>>

fsVars == <<cwd, dirs, files>>
provVars == <<pkgIdx, attempts, envCmds, procs, provPre, provCalls, provLog, tries>>
sessVars == <<input, output, blocks, executed, reports, prompts>>
callVars == <<calls, workdir, last, pre, sessVars>>

Top == stack[Len(stack)]
Pop(stk) == SubSeq(stk, 1, Len(stk) - 1)

\* one child process the engine tried to start: mode is "output" (captured, waited
\* for), "status" (inherited streams, waited for) or "spawn" (not waited for); o is
\* "spawn_err" (it could not be started), "ok" (exit 0) or "fail" (exit non-zero);
\* src is what the file the argument names in the working directory holds at
\* that moment, None when there is no such file
Ev(cmd, arg, mode, port, o) ==
    [cmd |-> cmd, arg |-> arg, mode |-> mode, port |-> port,
     started |-> o # "spawn_err",
     exit |-> IF o = "spawn_err" \/ mode = "spawn" THEN "none" ELSE o,
     out |-> "", err |-> "",
     src |-> IF FileKey(cwd, arg) \in DOMAIN files THEN <<files[FileKey(cwd, arg)]>>
             ELSE <<>>]

\* an attempt to start a child process that takes no port
Proc(cmd, arg, mode, o) == Ev(cmd, arg, mode, -1, o)

\* Command::output() whose stdout and stderr the code reads
Captured(cmd, arg, o, out, err) ==
    [Proc(cmd, arg, "output", o) EXCEPT !.out = out, !.err = err]

NoArgs == [code |-> "", language |-> ""]

InitCommon ==
    /\ pc = "idle"
    /\ stack = <<>>
    /\ cwd = StartDir
    /\ trace = <<>>
    /\ res = <<>>
    /\ result = <<>>
    /\ calls = 0
    /\ last = NoArgs
    /\ pre = [cwd |-> StartDir, dirs |-> {}, files |-> <<>>]
    /\ pkg = ""
    /\ pkgIdx = 0
    /\ attempts = 0
    /\ envCmds = 0
    /\ procs = 0
    /\ provPre = [dirs |-> {}, files |-> <<>>]
    /\ provCalls = 0
    /\ provLog = <<>>
    /\ tries = <<>>
    /\ output = <<>>
    /\ blocks = <<>>
    /\ executed = 0
    /\ reports = <<>>
    /\ prompts = 0

\* the program starts in StartDir, with no environment provisioned yet
Init ==
    /\ InitCommon
    /\ input = ""
    /\ workdir \in Workdirs
    /\ dirs = CreateDirAll({}, StartDir)
    /\ files = <<>>

(***************************************************************************)
(* Pure parts of execute_code_block and of the error handlers.             *)
(***************************************************************************)
\* ResolveExt with a default arm that runs an unknown tag as a shell script
ResolveExt_DefaultArm(language) ==
    LET t == ToLowercase(language)
    IN  IF t \in {"python", "py"} THEN <<"py">>
        ELSE IF t \in {"javascript", "js"} THEN <<"js">>
        ELSE IF t \in {"typescript", "ts"} THEN <<"ts">>
        ELSE IF t \in {"rust", "rs"} THEN <<"rs">>
        ELSE IF t = "html" THEN <<"html">>
        ELSE <<"sh">>

\* the extension of a language tag, None outside the alias table
ResolveExt(language) ==
    LET t == ToLowercase(language)
    IN  IF t \in {"python", "py"} THEN <<"py">>
        ELSE IF t \in {"javascript", "js"} THEN <<"js">>
        ELSE IF t \in {"typescript", "ts"} THEN <<"ts">>
        ELSE IF t \in {"rust", "rs"} THEN <<"rs">>
        ELSE IF t \in {"bash", "sh"} THEN <<"sh">>
        ELSE IF t = "html" THEN <<"html">>
        ELSE <<>>

\* SpecialCommand comparing the text as it is, not trimmed
SpecialCommand_Untrimmed(code) ==
    IF code = "create-react-app" THEN "create-react-app"
    ELSE IF code = "npm start" THEN "npm start"
    ELSE IF StartsWith(code, "start-server") THEN "start-server"
    ELSE ""

\* which special command the fragment text is, "" when it is code
SpecialCommand(code) ==
    IF Trim(code) = "create-react-app" THEN "create-react-app"
    ELSE IF Trim(code) = "npm start" THEN "npm start"
    ELSE IF StartsWith(Trim(code), "start-server") THEN "start-server"
    ELSE ""

\* ServerPort reading the first token, nth(0)
ServerPort_FirstToken(code) == UnwrapOr(
    LET tok == Nth(SplitWhitespace(code), 0)
    IN  IF tok = <<>> THEN <<>> ELSE ParseU16(tok[1]),
    8000)

\* the port of a start-server directive
ServerPort(code) == UnwrapOr(
    LET tok == Nth(SplitWhitespace(code), 1)
    IN  IF tok = <<>> THEN <<>> ELSE ParseU16(tok[1]),
    8000)

\* format!("temp_code.{}", ext)
TempName(ext) == "temp_code." \o ext

\* the binary rustc leaves beside the source
BinaryName == "temp_code"

\* the extension of a frame's language
FrameExt(f) == ResolveExt(f.language)[1]

\* ExtractPackage taking the piece before the marker, nth(0)
ExtractPackage_Nth0(error, marker) ==
    LET piece == Nth(Split(error, marker), 0)
    IN  IF piece = <<>> THEN <<>> ELSE <<Split(piece[1], "'")[1]>>

\* error.split(marker).nth(1).and_then(|s| s.split('\'').next())
ExtractPackage(error, marker) ==
    LET piece == Nth(Split(error, marker), 1)
    IN  IF piece = <<>> THEN <<>> ELSE <<Split(piece[1], "'")[1]>>

\* handle_python_error up to its first side effect: install a package, or fail
HandlePythonError(error) ==
    IF Contains(error, "ModuleNotFoundError")
    THEN LET p == ExtractPackage(error, "No module named '")
         IN  IF p = <<>> THEN [do |-> "fail", val |-> "Could not extract package name"]
             ELSE [do |-> "install", val |-> p[1]]
    ELSE [do |-> "fail", val |-> error]

\* handle_node_error up to its first side effect
HandleNodeError(error) ==
    IF Contains(error, "Cannot find module")
    THEN LET p == ExtractPackage(error, "Cannot find module '")
         IN  IF p = <<>> THEN [do |-> "fail", val |-> "Could not extract package name"]
             ELSE [do |-> "install", val |-> p[1]]
    ELSE [do |-> "fail", val |-> error]

\* IsMissingModule giving way to the end-of-input markers
IsMissingModule_UnlessEndOfInput(err) ==
    Contains(err, "ModuleNotFoundError") /\ ~Contains(err, "EOF")

\* the Python branch's test for a missing module
IsMissingModule(err) == Contains(err, "ModuleNotFoundError")

\* NeedsInteractive without the end-of-input markers
NeedsInteractive_InputOnly(err) == Contains(err, "input(")

\* the Python branch's test for an input-related error
NeedsInteractive(err) ==
    Contains(err, "input(") \/ Contains(err, "EOF") \/ Contains(err, "EOFError")

\* what a caller frame makes of the result r of the execute_code_block it called:
\* handle_python_error's call is returned as it is; the JavaScript branch maps
\* handle_node_error's Ok to Ok only when it is empty
CallerResult(f, r) ==
    IF FrameExt(f) = "js"
    THEN IF ~r.ok THEN r
         ELSE IF r.val = "" THEN Ok("")
         ELSE Err("Node.js exited with status: " \o ExitStatus)
    ELSE r

\* the venv marker and the project manifest of the working directory
VenvDir(d) == Append(d, "venv")
HasVenv == VenvDir(cwd) \in dirs
Manifest(d) == FileKey(d, "package.json")

\* HasManifest looking for the manifest in the directory above
HasManifest_Parent == Manifest(Resolve(cwd, "..")) \in DOMAIN files

HasManifest == Manifest(cwd) \in DOMAIN files

(***************************************************************************)
(* extract_code_blocks.                                                    *)
(***************************************************************************)
\* the fence marker.  The code's marker is three grave accents, a character a
\* TLA+ string cannot hold: the tilde stands for it, here and in every line.
Fence == "~~~"

\* the loop of extract_code_blocks over the lines left, st its local variables
RECURSIVE ScanLines(_, _)
ScanLines(lines, st) ==
    IF lines = <<>> THEN st.blocks
    ELSE LET line == Head(lines)
             nxt == IF StartsWith(Trim(line), Fence)
                    THEN IF st.in_block
                         THEN [blocks |-> Append(st.blocks, <<st.lang, st.current>>),
                               current |-> "", lang |-> "", in_block |-> FALSE]
                         ELSE [st EXCEPT !.in_block = TRUE,
                                         !.lang = TrimStartMatches(Trim(line), Fence)]
                    ELSE IF st.in_block
                         THEN [st EXCEPT !.current = st.current \o line \o "\n"]
                         ELSE st
         IN  ScanLines(Tail(lines), nxt)

\* extract_code_blocks on the lines of a response: the (tag, code) pairs
ExtractCodeBlocks(lines) ==
    ScanLines(lines, [blocks |-> <<>>, current |-> "", lang |-> "", in_block |-> FALSE])

(***************************************************************************)
(* Returning.                                                              *)
(***************************************************************************)
\* the innermost frame of execute_code_block returns r to its caller
ReturnFrom(r) ==
    LET stk == Pop(stack)
    IN  /\ stack' = stk
        /\ IF stk = <<>>
           THEN pc' = "idle" /\ result' = <<r>> /\ res' = <<>>
           ELSE /\ pc' = "cleanup"
                /\ res' = <<CallerResult(stk[Len(stk)], r)>>
                /\ UNCHANGED result

\* the dispatch closure of the innermost frame yields r
Closure(r) ==
    /\ pc' = "cleanup"
    /\ res' = <<r>>
    /\ UNCHANGED <<stack, result>>

\* the dispatch closure goes on at point p
Goto(p) ==
    /\ pc' = p
    /\ UNCHANGED <<stack, res, result>>

(***************************************************************************)
(* The special commands.                                                   *)
(***************************************************************************)
\* setup_react_environment, then the and_then of execute_code_block
SetupReactEnvironment(o) ==
    IF o = "spawn_err" THEN Err(SpawnError)
    ELSE IF o = "fail" THEN Err("Failed to create React application")
    ELSE Ok("React application created successfully. Use 'npm start' to run the development server.")

\* start_react_server: the server is spawned, never waited for
StartReactServer(o) ==
    IF o = "spawn_err" THEN Err(SpawnError)
    ELSE Ok("React development server started. Press Ctrl+C to stop.")

\* start_local_server: the server is spawned, never waited for
StartLocalServer(port, o) ==
    IF o = "spawn_err" THEN Err(SpawnError)
    ELSE Ok("Local server started on port " \o NatToString(port)
            \o ". Press Ctrl+C to stop.")

(***************************************************************************)
(* execute_code_block.                                                     *)
(***************************************************************************)
\* execute_code_block is called from outside on a fragment and its tag
Start(code, language) ==
    /\ pc = "idle"
    /\ calls' = calls + 1
    /\ stack' = <<[code |-> code, language |-> language, workdir |-> workdir]>>
    /\ last' = [code |-> code, language |-> language]
    /\ pre' = [cwd |-> cwd, dirs |-> dirs, files |-> files]
    /\ trace' = <<>>
    /\ result' = <<>>
    /\ res' = <<>>
    /\ pc' = "entry"
    /\ UNCHANGED <<fsVars, workdir, pkg, provVars>>

\* process_prompt calls execute_code_block on one block, MaxCalls times at most
Call(code, language) ==
    /\ calls < MaxCalls
    /\ Start(code, language)
    /\ UNCHANGED sessVars

\* the first point the dispatch closure reaches for an extension
FirstPoint(ext) ==
    CASE ext = "py" -> "py_venv"
      [] ext = "js" -> "node_setup"
      [] ext = "ts" -> "node_setup"
      [] ext = "rs" -> "rs_compile"
      [] ext = "sh" -> "sh_run"
      [] ext = "html" -> "html_open"

\* execute_code_block from its entry to the dispatch closure: the special
\* commands, the language match, the working directory, the temp file
Entry ==
    /\ pc = "entry"
    /\ UNCHANGED <<callVars, pkg, provVars>>
    /\ LET f == Top
           special == SpecialCommand(f.code)
           ext == ResolveExt(f.language)
       IN
       IF special = "create-react-app" THEN
           \E o \in {"spawn_err", "ok", "fail"} :
               /\ trace' = Append(trace,
                      Proc("npx", "create-react-app", "status", o))
               /\ ReturnFrom(SetupReactEnvironment(o))
               /\ UNCHANGED fsVars
       ELSE IF special = "npm start" THEN
           \E o \in {"spawn_err", "ok"} :
               /\ trace' = Append(trace, Proc("npm", "start", "spawn", o))
               /\ ReturnFrom(StartReactServer(o))
               /\ UNCHANGED fsVars
       ELSE IF special = "start-server" THEN
           \E o \in {"spawn_err", "ok"} :
               /\ trace' = Append(trace,
                      Ev("python", "-m http.server", "spawn", ServerPort(f.code), o))
               /\ ReturnFrom(StartLocalServer(ServerPort(f.code), o))
               /\ UNCHANGED fsVars
       ELSE IF ext = <<>> THEN
           /\ ReturnFrom(Err("Unsupported language: " \o f.language))
           /\ UNCHANGED <<fsVars, trace>>
       ELSE
           \E mk \in {"ok", "mkdir_err", "chdir_err"}, wr \in {"ok", "create_err", "write_err"} :
               LET entered == f.workdir # <<>> /\ mk = "ok"
                   made == f.workdir # <<>> /\ mk # "mkdir_err"
                   target == IF f.workdir = <<>> THEN cwd ELSE Resolve(cwd, f.workdir[1])
                   here == IF entered THEN target ELSE cwd
                   key == FileKey(here, TempName(ext[1]))
               IN  /\ f.workdir = <<>> => mk = "ok"
                   /\ mk # "ok" => wr = "ok"
                   /\ trace' = trace
                   /\ dirs' = IF made THEN CreateDirAll(dirs, target) ELSE dirs
                   /\ cwd' = here
                   /\ IF mk # "ok" THEN
                          /\ files' = files
                          /\ ReturnFrom(Err(CreateError))
                      ELSE IF wr = "create_err" THEN
                          /\ files' = files
                          /\ ReturnFrom(Err(CreateError))
                      ELSE IF wr = "write_err" THEN
                          /\ files' = PutFile(files, key, "")
                          /\ ReturnFrom(Err(WriteError))
                      ELSE
                          /\ files' = PutFile(files, key, f.code)
                          /\ Goto(FirstPoint(ext[1]))

\* execute_code_block after the dispatch closure: the temp file and the binary are
\* removed, the working directory is reset, the closure's result is returned.
\* The parent of the working directory exists (nothing removes a directory), so
\* set_current_dir("..") succeeds and its ? never replaces the result.
Cleanup ==
    /\ pc = "cleanup"
    /\ LET f == Top
           ext == FrameExt(f)
           f1 == IF ext # "html" THEN RemoveFile(files, FileKey(cwd, TempName(ext)))
                 ELSE files
           f2 == IF ext = "rs" THEN RemoveFile(f1, FileKey(cwd, BinaryName)) ELSE f1
       IN  /\ files' = f2
           /\ cwd' = IF f.workdir # <<>> THEN Resolve(cwd, "..") ELSE cwd
           /\ ReturnFrom(res[1])
    /\ UNCHANGED <<dirs, trace, callVars, pkg, provVars>>

(***************************************************************************)
(* The environment provisioners.                                           *)
(***************************************************************************)
\* Packages with setuptools before pip
Packages_Reordered == <<"setuptools", "pip", "wheel">>

\* the baseline packages setup_python_environment upgrades, in order
Packages == <<"pip", "setuptools", "wheel">>

\* attempts per package
MaxAttempts == 3

\* envCmds and procs count for a provisioner called on its own; execute_code_block
\* keeps no count of what its provisioner ran
Counted(n) == IF stack = <<>> THEN n ELSE 0

\* what a direct provisioner call did
ProvEntry(kind, r, ec, pr, ds, fs) ==
    [kind |-> kind, ok |-> r.ok, val |-> r.val, envCmds |-> ec, procs |-> pr,
     marker |-> IF kind = "python" THEN VenvDir(cwd) \in provPre.dirs
                ELSE Manifest(cwd) \in DOMAIN provPre.files,
     made |-> IF kind = "python" THEN VenvDir(cwd) \in ds ELSE Manifest(cwd) \in DOMAIN fs,
     changed |-> ds # provPre.dirs \/ fs # provPre.files]

\* a provisioner returns r, having run ec creation commands and pr processes and
\* left ds and fs on disk: to execute_code_block, which goes on at point next or
\* ends its closure with the error, or to a direct caller.
ProvReturn(kind, r, next, ec, pr, ds, fs) ==
    /\ pkgIdx' = 0
    /\ attempts' = 0
    /\ UNCHANGED <<provPre, provCalls>>
    /\ IF stack = <<>>
       THEN /\ pc' = "idle"
            /\ provLog' = Append(provLog, ProvEntry(kind, r, ec, pr, ds, fs))
            /\ envCmds' = ec
            /\ procs' = pr
            /\ UNCHANGED <<stack, res, result>>
       ELSE /\ provLog' = provLog
            /\ envCmds' = ec
            /\ procs' = pr
            /\ IF r.ok THEN Goto(next) ELSE Closure(r)

\* the outcomes of the venv creation of setup_python_environment: the first
\* python -m venv, then, when that could not be spawned, the interpreter's
\* installer, then the second python -m venv
VenvOutcomes ==
    {<<"created", "none", "none">>, <<"failed", "none", "none">>,
     <<"spawn_err", "spawn_err", "none">>}
    \cup {<<"spawn_err", "ran", second>> : second \in {"created", "failed", "spawn_err"}}

\* setup_python_environment, the venv part: nothing when the venv directory exists
SetupPythonVenv ==
    /\ pc = "py_venv"
    /\ UNCHANGED <<cwd, files, trace, callVars, pkg, tries>>
    /\ IF HasVenv
       THEN /\ pc' = "py_upgrade"
            /\ pkgIdx' = 1
            /\ attempts' = 0
            /\ UNCHANGED <<dirs, stack, res, result, envCmds, procs, provPre,
                           provCalls, provLog>>
       ELSE \E o \in VenvOutcomes :
            LET created == o[1] = "created" \/ o[3] = "created"
                failed == o[2] = "spawn_err" \/ o[3] = "spawn_err"
                n == (IF o[1] # "spawn_err" THEN 1 ELSE 0)
                     + (IF o[3] \in {"created", "failed"} THEN 1 ELSE 0)
                ec == Counted(envCmds + n)
                pr == Counted(procs + n + (IF o[2] = "ran" THEN 1 ELSE 0))
                ds == IF created THEN dirs \cup {VenvDir(cwd)} ELSE dirs
            IN  /\ dirs' = ds
                /\ IF failed
                   THEN ProvReturn("python", Err(SpawnError), "py_run", ec, pr, ds, files)
                   ELSE /\ pc' = "py_upgrade"
                        /\ pkgIdx' = 1
                        /\ attempts' = 0
                        /\ envCmds' = ec
                        /\ procs' = pr
                        /\ UNCHANGED <<stack, res, result, provPre, provCalls, provLog>>

\* setup_python_environment, one attempt of the upgrade loop; the venv's
\* interpreter cannot be spawned when there is no venv directory
PipUpgrade ==
    /\ pc = "py_upgrade"
    /\ UNCHANGED <<fsVars, trace, callVars, pkg>>
    /\ \E o \in {"ok", "fail", "spawn_err"} :
        LET pr == Counted(procs + (IF o # "spawn_err" THEN 1 ELSE 0))
        IN  /\ ~HasVenv => o = "spawn_err"
            /\ tries' = IF stack = <<>>
                        THEN Append(tries, [package |-> Packages[pkgIdx], o |-> o])
                        ELSE tries
            /\ IF o = "spawn_err"
               THEN ProvReturn("python", Err(SpawnError), "py_run", envCmds, pr,
                               dirs, files)
               ELSE IF o = "ok"
               THEN IF pkgIdx = Len(Packages)
                    THEN ProvReturn("python", Ok(""), "py_run", envCmds, pr, dirs, files)
                    ELSE /\ pkgIdx' = pkgIdx + 1
                         /\ attempts' = 0
                         /\ procs' = pr
                         /\ UNCHANGED <<pc, stack, res, result, envCmds, provPre,
                                        provCalls, provLog>>
               ELSE IF attempts + 1 = MaxAttempts
                    THEN ProvReturn("python",
                             Err("Failed to install " \o Packages[pkgIdx]
                                 \o " after 3 attempts"),
                             "py_run", envCmds, pr, dirs, files)
                    ELSE /\ attempts' = attempts + 1
                         /\ procs' = pr
                         /\ UNCHANGED <<pc, stack, res, result, pkgIdx, envCmds,
                                        provPre, provCalls, provLog>>

\* the point after setup_node_environment in the branch of the frame's extension
AfterNodeSetup == IF stack # <<>> /\ FrameExt(Top) = "ts" THEN "ts_tools" ELSE "js_run"

\* setup_node_environment: nothing when package.json exists
SetupNode ==
    /\ pc = "node_setup"
    /\ UNCHANGED <<cwd, dirs, trace, callVars, pkg, tries>>
    /\ IF HasManifest
       THEN /\ files' = files
            /\ ProvReturn("node", Ok(""), AfterNodeSetup, envCmds, procs, dirs, files)
       ELSE \E o \in {"created", "failed", "spawn_err"} :
            LET ran == Counted(IF o # "spawn_err" THEN 1 ELSE 0)
                fs == IF o = "created" THEN PutFile(files, Manifest(cwd), "{}") ELSE files
            IN  /\ files' = fs
                /\ ProvReturn("node",
                              IF o = "spawn_err" THEN Err(SpawnError) ELSE Ok(""),
                              AfterNodeSetup, envCmds + ran, procs + ran, dirs, fs)

\* a provisioner called on its own, MaxProvCalls times at most
ProvCall(kind) ==
    /\ pc = "idle"
    /\ stack = <<>>
    /\ provCalls < MaxProvCalls
    /\ provCalls' = provCalls + 1
    /\ pc' = IF kind = "python" THEN "py_venv" ELSE "node_setup"
    /\ envCmds' = 0
    /\ procs' = 0
    /\ provPre' = [dirs |-> dirs, files |-> files]
    /\ tries' = <<>>
    /\ UNCHANGED <<stack, fsVars, trace, res, result, callVars, pkg, pkgIdx, attempts,
                   provLog>>

(***************************************************************************)
(* The dispatch closure of execute_code_block, branch by branch.           *)
(***************************************************************************)
\* the interpreter of the venv
PythonPath == "venv/bin/python"

\* the outcomes of the captured Python run
PyRunOutcomes ==
    {[o |-> "spawn_err", out |-> "", err |-> ""]}
    \cup {[o |-> "ok", out |-> x, err |-> ""] : x \in Stdouts}
    \cup {[o |-> "fail", out |-> "", err |-> d] : d \in Diagnostics}

\* "py": the captured run and what its failure leads to
PyRun ==
    /\ pc = "py_run"
    /\ UNCHANGED <<fsVars, callVars, provVars>>
    /\ \E run \in PyRunOutcomes :
        /\ ~HasVenv => run.o = "spawn_err"
        /\ trace' = Append(trace,
               Captured(PythonPath, TempName("py"), run.o, run.out, run.err))
        /\ IF run.o = "spawn_err" THEN Closure(Err(SpawnError)) /\ pkg' = pkg
           ELSE IF run.o = "ok" THEN Closure(Ok(run.out)) /\ pkg' = pkg
           ELSE IF IsMissingModule(run.err)
           THEN LET plan == HandlePythonError(run.err)
                IN  IF plan.do = "install"
                    THEN Goto("py_install") /\ pkg' = plan.val
                    ELSE Closure(Err(plan.val)) /\ pkg' = pkg
           ELSE IF NeedsInteractive(run.err)
           THEN Goto("py_interactive") /\ pkg' = pkg
           ELSE Closure(Err(run.err)) /\ pkg' = pkg

\* install_python_package failing on a non-zero exit as well
InstallPythonPackage_ChecksExit(o) ==
    IF o = "spawn_err" THEN Err(SpawnError)
    ELSE IF o = "fail" THEN Err("pip exited with status: " \o ExitStatus)
    ELSE Ok("")

\* install_python_package: output() is awaited and only its io::Error is an
\* error; the exit status and the captured streams are dropped
InstallPythonPackage(o) ==
    IF o = "spawn_err" THEN Err(SpawnError) ELSE Ok("")

\* handle_python_error from install_python_package on: the install's exit status
\* is not looked at, and execute_code_block is entered again
PyInstall ==
    /\ pc = "py_install"
    /\ Len(stack) <= MaxDepth
    /\ UNCHANGED <<fsVars, callVars, pkg, provVars>>
    /\ \E o \in {"ok", "fail", "spawn_err"} :
        /\ ~HasVenv => o = "spawn_err"
        /\ trace' = Append(trace, Proc("pip install", pkg, "output", o))
        /\ IF ~InstallPythonPackage(o).ok THEN Closure(InstallPythonPackage(o))
           ELSE /\ stack' = Append(stack,
                        [code |-> Top.code, language |-> "python", workdir |-> <<>>])
                /\ pc' = "entry"
                /\ UNCHANGED <<res, result>>

\* handle_python_error from install_python_package on, past the MaxDepth nested
\* frames the model keeps: the frame the code pushes is equal to the innermost
\* frame, (code, "python", None), and is folded onto it, and the trace keeps the
\* events up to this point only, so that the failed run that led here is the
\* one the re-entry is about to repeat
PyInstallFolded ==
    /\ pc = "py_install"
    /\ Len(stack) > MaxDepth
    /\ UNCHANGED <<fsVars, callVars, pkg, provVars>>
    /\ \E o \in {"ok", "fail", "spawn_err"} :
        /\ ~HasVenv => o = "spawn_err"
        /\ IF ~InstallPythonPackage(o).ok
           THEN /\ trace' = Append(trace, Proc("pip install", pkg, "output", o))
                /\ Closure(InstallPythonPackage(o))
           ELSE /\ trace' = SubSeq(trace, 1, Len(trace) - 1)
                /\ pc' = "entry"
                /\ UNCHANGED <<stack, res, result>>

\* "py": the run with inherited streams
PyInteractive ==
    /\ pc = "py_interactive"
    /\ UNCHANGED <<fsVars, callVars, pkg, provVars>>
    /\ \E o \in {"ok", "fail", "spawn_err"} :
        /\ trace' = Append(trace, Proc(PythonPath, TempName("py"), "status", o))
        /\ Closure(IF o = "spawn_err" THEN Err(SpawnError)
                   ELSE IF o = "ok" THEN Ok("")
                   ELSE Err("Python exited with status: " \o ExitStatus))

\* what node writes to the terminal before a non-zero exit
NodeDiagnostics ==
    {"Error: Cannot find module 'lodash'", "TypeError: x is not a function"}

\* "js": node with inherited streams, so that what it writes goes to the terminal
\* and not to the engine; a non-zero exit goes to handle_node_error with the
\* empty string as the diagnostic
JsRun ==
    /\ pc = "js_run"
    /\ UNCHANGED <<fsVars, callVars, pkg, provVars>>
    /\ \E d \in {"ok", "spawn_err"} \cup NodeDiagnostics, inst \in {"ok", "fail", "spawn_err"} :
        LET o == IF d \in NodeDiagnostics THEN "fail" ELSE d
            plan == HandleNodeError("")
            installs == o = "fail" /\ plan.do = "install"
            ran == Append(trace,
                       [Proc("node", TempName("js"), "status", o)
                            EXCEPT !.err = IF o = "fail" THEN d ELSE ""])
        IN  /\ ~installs => inst = "ok"
            /\ trace' = IF installs
                        THEN Append(ran, Proc("npm install", plan.val, "output", inst))
                        ELSE ran
            /\ IF o = "spawn_err" THEN Closure(Err(SpawnError))
               ELSE IF o = "ok" THEN Closure(Ok(""))
               ELSE IF plan.do = "fail" THEN Closure(Err(plan.val))
               ELSE IF inst = "spawn_err" THEN Closure(Err(SpawnError))
               ELSE /\ Len(stack) <= MaxDepth
                    /\ stack' = Append(stack,
                          [code |-> Top.code, language |-> "javascript", workdir |-> <<>>])
                    /\ pc' = "entry"
                    /\ UNCHANGED <<res, result>>

\* "ts": install_node_package("typescript"), then install_node_package("ts-node");
\* the exit status of neither is looked at
TsTools ==
    /\ pc = "ts_tools"
    /\ UNCHANGED <<fsVars, callVars, pkg, provVars>>
    /\ \E o1 \in {"ok", "fail", "spawn_err"}, o2 \in {"ok", "fail", "spawn_err"} :
        LET first == Append(trace, Proc("npm install", "typescript", "output", o1))
        IN  /\ o1 = "spawn_err" => o2 = "spawn_err"
            /\ trace' = IF o1 = "spawn_err" THEN first
                        ELSE Append(first, Proc("npm install", "ts-node", "output", o2))
            /\ IF o1 = "spawn_err" \/ o2 = "spawn_err"
               THEN Closure(Err(SpawnError))
               ELSE Goto("ts_run")

\* "ts": npx ts-node with inherited streams
TsRun ==
    /\ pc = "ts_run"
    /\ UNCHANGED <<fsVars, callVars, pkg, provVars>>
    /\ \E o \in {"ok", "fail", "spawn_err"} :
        /\ trace' = Append(trace, Proc("npx ts-node", TempName("ts"), "status", o))
        /\ Closure(IF o = "spawn_err" THEN Err(SpawnError)
                   ELSE IF o = "ok" THEN Ok("")
                   ELSE Err("TypeScript execution failed with status: " \o ExitStatus))

\* "rs": rustc, captured; a successful compile leaves the binary
RsCompile ==
    /\ pc = "rs_compile"
    /\ UNCHANGED <<cwd, dirs, callVars, pkg, provVars>>
    /\ \E o \in {"ok", "spawn_err"} \cup CompilerDiagnostics :
        LET oc == IF o \in CompilerDiagnostics THEN "fail" ELSE o
        IN  /\ trace' = Append(trace,
                   Captured("rustc", TempName("rs"), oc, "", IF oc = "fail" THEN o ELSE ""))
            /\ files' = IF o = "ok" THEN PutFile(files, FileKey(cwd, BinaryName), "ELF")
                        ELSE files
            /\ IF o = "spawn_err" THEN Closure(Err(SpawnError))
               ELSE IF o = "ok" THEN Goto("rs_run")
               ELSE Closure(Err(o))

\* "rs": the binary with inherited streams
RsRun ==
    /\ pc = "rs_run"
    /\ UNCHANGED <<fsVars, callVars, pkg, provVars>>
    /\ \E o \in {"ok", "fail", "spawn_err"} :
        /\ trace' = Append(trace, Proc("./temp_code", "", "status", o))
        /\ Closure(IF o = "spawn_err" THEN Err(SpawnError)
                   ELSE IF o = "ok" THEN Ok("")
                   ELSE Err("Rust program exited with status: " \o ExitStatus))

\* "sh": bash with inherited streams
ShRun ==
    /\ pc = "sh_run"
    /\ UNCHANGED <<fsVars, callVars, pkg, provVars>>
    /\ \E o \in {"ok", "fail", "spawn_err"} :
        /\ trace' = Append(trace, Proc("bash", TempName("sh"), "status", o))
        /\ Closure(IF o = "spawn_err" THEN Err(SpawnError)
                   ELSE IF o = "ok" THEN Ok("")
                   ELSE Err("Bash script exited with status: " \o ExitStatus))

\* "html": the platform's opener, waited for
HtmlOpen ==
    /\ pc = "html_open"
    /\ UNCHANGED <<fsVars, callVars, pkg, provVars>>
    /\ \E o \in {"ok", "fail", "spawn_err"} :
        /\ trace' = Append(trace, Proc("xdg-open", TempName("html"), "status", o))
        /\ Closure(IF o = "spawn_err" THEN Err(SpawnError)
                   ELSE IF o = "ok"
                   THEN Ok("HTML file opened in browser: " \o TempName("html"))
                   ELSE Err("Failed to open HTML file in browser"))

(***************************************************************************)
(* process_prompt and the loop of main.                                    *)
(***************************************************************************)
\* responses of the AI backend, as their lines: three blocks of which the second
\* has an unsupported tag, a JavaScript block followed by a Rust block, a
\* TypeScript block, a Python block followed by a directive, a response without
\* code, and one whose only region is left open
Responses ==
    {<<"Try this:", "~~~sh", "exit 1", "~~~", "~~~ruby", "puts 1", "~~~",
       "~~~html", "<p>hi</p>", "~~~">>,
     <<"~~~js", "f()", "~~~", "then", "~~~rs", "fn main() {}", "~~~">>,
     <<"~~~TS", "let x = 1", "~~~">>,
     <<"~~~Python", "import requests", "~~~", "~~~", "npm start", "~~~">>,
     <<"No code is needed.">>,
     <<"~~~sh", "ls">>}

\* --workdir in the sessions followed: None, one component, two components
SessionWorkdirs == {<<>>, <<"proj">>, <<"a/b">>}

\* what the user types at the Execute them? question
Answers == {"y\n", " Y \n", "n\n", "yes\n"}

\* ans.trim().eq_ignore_ascii_case("y")
Accepts(ans) == ToLowercase(Trim(ans)) = "y"

\* the loop over the blocks is not running: every block was passed on and reported
BlocksDone == pc = "idle" /\ executed = Len(blocks) /\ Len(reports) = executed

\* main reads a prompt and process_prompt sends it to the AI backend (not in raw
\* mode): ai is <<>> when the backend failed and <<response>> when it answered;
\* the blocks of the response are extracted and, when there are some, the user is
\* asked whether to execute them
Prompt(ai, ans) ==
    /\ BlocksDone
    /\ stack = <<>>
    /\ prompts < MaxPrompts
    /\ prompts' = prompts + 1
    /\ input' = ai
    /\ LET found == IF ai = <<>> THEN <<>> ELSE ExtractCodeBlocks(ai[1])
       IN  /\ found = <<>> => ans = "n\n"
           /\ blocks' = IF found # <<>> /\ Accepts(ans) THEN found ELSE <<>>
    /\ executed' = 0
    /\ reports' = <<>>
    /\ trace' = <<>>
    /\ result' = <<>>
    /\ UNCHANGED <<pc, stack, fsVars, res, calls, workdir, last, pre, pkg, provVars,
                   output>>

\* RunBlock leaving the loop once a block has failed
RunBlock_StopsOnError ==
    /\ executed < Len(blocks)
    /\ Len(reports) = executed
    /\ \A k \in DOMAIN reports : reports[k].ok
    /\ Start(blocks[executed + 1][2], blocks[executed + 1][1])
    /\ executed' = executed + 1
    /\ UNCHANGED <<input, output, blocks, reports, prompts>>

\* the for loop of process_prompt passes the next block to execute_code_block
RunBlock ==
    /\ executed < Len(blocks)
    /\ Len(reports) = executed
    /\ Start(blocks[executed + 1][2], blocks[executed + 1][1])
    /\ executed' = executed + 1
    /\ UNCHANGED <<input, output, blocks, reports, prompts>>

\* the match on what execute_code_block returned: the result or the error is
\* printed, and the loop goes on
Report ==
    /\ pc = "idle"
    /\ stack = <<>>
    /\ Len(reports) < executed
    /\ result # <<>>
    /\ reports' = Append(reports, result[1])
    /\ UNCHANGED <<pc, stack, fsVars, trace, res, result, calls, workdir, last, pre,
                   pkg, provVars, input, output, blocks, executed, prompts>>

(***************************************************************************)
(* Specifications.                                                         *)
(***************************************************************************)
\* the steps of execute_code_block after its call
Engine ==
    \/ Entry
    \/ SetupPythonVenv
    \/ PipUpgrade
    \/ SetupNode
    \/ PyRun
    \/ PyInstall
    \/ PyInteractive
    \/ JsRun
    \/ TsTools
    \/ TsRun
    \/ RsCompile
    \/ RsRun
    \/ ShRun
    \/ HtmlOpen
    \/ Cleanup

Next ==
    \/ \E code \in Fragments, language \in Tags : Call(code, language)
    \/ Engine

\* a session: blocks are executed one after the other
Spec == Init /\ [][Next]_vars

\* the fragments whose call waits on a child process: code, and the directive
\* that scaffolds an application (the two server directives spawn and return)
WaitingFragments == {"import requests\n", "create-react-app\n"}

NextLoop ==
    \/ \E code \in WaitingFragments, language \in Tags : Call(code, language)
    \/ Engine
    \/ PyInstallFolded

\* one call of execute_code_block followed without a bound on its re-entries.
\* The program is one thread that takes its next step whenever it has one, and
\* every child process it waits on exits: weak fairness of the next-step action.
SpecLoop == Init /\ [][NextLoop]_vars /\ WF_vars(NextLoop)

\* a session starts with no response read yet
InitSession ==
    /\ InitCommon
    /\ input = <<>>
    /\ workdir \in SessionWorkdirs
    /\ dirs = CreateDirAll({}, StartDir)
    /\ files = <<>>

NextSession ==
    \/ \E ai \in {<<>>} \cup {<<r>> : r \in Responses}, ans \in Answers : Prompt(ai, ans)
    \/ RunBlock
    \/ Report
    \/ Engine

\* a session: prompts are read one after the other, and the blocks of each
\* accepted response are executed one after the other
SpecSession == InitSession /\ [][NextSession]_vars

\* a working directory with or without the environment markers
InitProv ==
    /\ InitCommon
    /\ input = ""
    /\ workdir = <<>>
    /\ \E venv \in BOOLEAN, manifest \in BOOLEAN :
        /\ dirs = CreateDirAll({}, StartDir)
                  \cup (IF venv THEN {VenvDir(StartDir)} ELSE {})
        /\ files = IF manifest THEN PutFile(<<>>, Manifest(StartDir), "{}") ELSE <<>>

NextProv ==
    \/ \E kind \in {"python", "node"} : ProvCall(kind)
    \/ SetupPythonVenv
    \/ PipUpgrade
    \/ SetupNode

\* the provisioners on their own, called in succession in one directory
SpecProv == InitProv /\ [][NextProv]_vars

\* the upper-case form of a character
UpperChar(c) ==
    LET i == FindFirst(LowerChars, c)
    IN  IF Len(c) = 1 /\ i # 0 THEN CharAt(UpperChars, i) ELSE c

\* every upper/lower-case spelling of a tag
RECURSIVE CaseVariants(_)
CaseVariants(s) ==
    IF s = "" THEN {""}
    ELSE {c \o r : c \in {LowerChar(CharAt(s, 1)), UpperChar(CharAt(s, 1))},
                   r \in CaseVariants(Drop(s, 2))}

\* the tags of the language match, each with the extension of its arm
AliasPairs ==
    {<<"python", "py">>, <<"py", "py">>, <<"javascript", "js">>, <<"js", "js">>,
     <<"typescript", "ts">>, <<"ts", "ts">>, <<"rust", "rs">>, <<"rs", "rs">>,
     <<"bash", "sh">>, <<"sh", "sh">>, <<"html", "html">>}

\* the spellings of each tag of the match
VariantsOf == [a \in {p[1] : p \in AliasPairs} |-> CaseVariants(a)]

\* tags no arm of the match takes
OtherTags ==
    {"cobol", "ruby", "", " ", " py", "py ", " Python ", "python\n", "pyt", "python3",
     "htm", "html5", "shell", "node", "jsx", "c", "rustc", "type script", "p y"}

\* the tags the language match is applied to
ResolverTags == UNION {VariantsOf[a] : a \in DOMAIN VariantsOf} \cup OtherTags

\* a tag, to which the language match has not been applied yet
InitResolve ==
    /\ InitCommon
    /\ input \in ResolverTags
    /\ workdir = <<>>
    /\ dirs = CreateDirAll({}, StartDir)
    /\ files = <<>>

\* the language match of execute_code_block, applied to the tag
ResolveLanguage ==
    /\ output = <<>>
    /\ output' = LET ext == ResolveExt(input)
                 IN  IF ext = <<>> THEN <<Err("Unsupported language: " \o input)>>
                     ELSE <<Ok(ext[1])>>
    /\ UNCHANGED <<pc, stack, fsVars, trace, res, result, calls, workdir, last, pre,
                   pkg, provVars, input, blocks, executed, reports, prompts>>

NextResolve == ResolveLanguage

\* the language match on its own, over every spelling of every tag it takes
SpecResolve == InitResolve /\ [][NextResolve]_vars

\* the lines a response is made of: prose, fences with and without a tag, with
\* whitespace around them and with a doubled marker, and an indented code line
ResponseLines == {"hello", "~~~", "~~~py", "  ~~~ js ", "~~~~~~sh", "  x = 1 "}

\* the sequences of at most n lines
RECURSIVE LineSeqs(_)
LineSeqs(n) ==
    IF n = 0 THEN {<<>>}
    ELSE LET shorter == LineSeqs(n - 1)
         IN  shorter \cup {Append(ls, l) : ls \in shorter, l \in ResponseLines}

\* a response, to which extract_code_blocks has not been applied yet
InitExtract ==
    /\ InitCommon
    /\ input \in LineSeqs(MaxLines)
    /\ workdir = <<>>
    /\ dirs = CreateDirAll({}, StartDir)
    /\ files = <<>>

\* extract_code_blocks applied to the response
ExtractBlocks ==
    /\ output = <<>>
    /\ output' = <<ExtractCodeBlocks(input)>>
    /\ UNCHANGED <<pc, stack, fsVars, trace, res, result, calls, workdir, last, pre,
                   pkg, provVars, input, blocks, executed, reports, prompts>>

NextExtract == ExtractBlocks

\* extract_code_blocks on its own, over every response of at most MaxLines lines
SpecExtract == InitExtract /\ [][NextExtract]_vars

\* how a start-server directive begins: alone, after blanks, glued to more text
DirectiveHeads == {"start-server", "  start-server", "\tstart-server", "start-server:"}

\* the whitespace between the first token and the second
DirectiveGaps == {" ", "\t ", "\n"}

\* second tokens of a start-server directive
PortTokens ==
    {"0", "1", "80", "080", "+80", "8000", "8080", "65535", "65536", "70000",
     "99999999999", "-1", "-0", "-8080", "abc", "80a", "a80", "8.0", "0x50", "+",
     "80,", "port=80"}

\* what follows the second token
DirectiveTails == {"", "\n", " 9090", "  \n"}

\* the directive texts: with a second token, and without one
DirectiveTexts ==
    {[head |-> h, gap |-> g, tok |-> t, tail |-> r] :
        h \in DirectiveHeads, g \in DirectiveGaps, t \in PortTokens,
        r \in DirectiveTails}
    \cup {[head |-> h, gap |-> "", tok |-> "", tail |-> r] :
             h \in DirectiveHeads, r \in {"", "\n", "  "}}

\* the text of a directive
TextOf(d) == d.head \o d.gap \o d.tok \o d.tail

\* a start-server directive, whose port has not been computed yet
InitPort ==
    /\ InitCommon
    /\ input \in DirectiveTexts
    /\ workdir = <<>>
    /\ dirs = CreateDirAll({}, StartDir)
    /\ files = <<>>

\* the start-server arm of execute_code_block and of process_prompt, up to the
\* call of start_local_server: the port it is given
ComputePort ==
    /\ output = <<>>
    /\ StartsWith(Trim(TextOf(input)), "start-server")
    /\ output' = <<ServerPort(TextOf(input))>>
    /\ UNCHANGED <<pc, stack, fsVars, trace, res, result, calls, workdir, last, pre,
                   pkg, provVars, input, blocks, executed, reports, prompts>>

NextPort == ComputePort

\* the port computation on its own, over the directive texts
SpecPort == InitPort /\ [][NextPort]_vars

(***************************************************************************)
(* Properties.                                                             *)
(***************************************************************************)
\* the last top-level call has returned
Returned == pc = "idle" /\ result # <<>>

\* the positions of the trace that hold a command
Positions(cmd) == {i \in DOMAIN trace : trace[i].cmd = cmd}

\* the captured Python runs of the temp file
IsCapturedRun(e) == e.cmd = PythonPath /\ e.arg = TempName("py") /\ e.mode = "output"

\* the Python runs of the temp file with inherited streams
IsInteractiveRun(e) == e.cmd = PythonPath /\ e.arg = TempName("py") /\ e.mode = "status"

\* C1: one top-level call on a Python fragment installs at most one package and
\* re-executes the fragment at most once (at most two captured runs), whatever
\* the interpreter and the installer do.
C1_BoundedRetry ==
    /\ Cardinality(Positions("pip install")) <= 1
    /\ Cardinality({i \in DOMAIN trace : IsCapturedRun(trace[i])}) <= 2

\* C2: after execute_code_block has returned from a call with a working-directory
\* override, the working directory is the one before the call, on every exit path.
C2_WorkdirRestored ==
    (Returned /\ workdir # <<>>) => cwd = pre.cwd

\* the names of the temp source files and of the compiled binary
TempNames == {TempName(x) : x \in {"py", "js", "ts", "rs", "sh"}} \cup {BinaryName}

\* C3: once execute_code_block has returned from a fragment of any family but
\* html, no temp source file and no compiled binary is left on disk.
C3_NoTempArtifactLeft ==
    (Returned /\ SpecialCommand(last.code) = ""
              /\ ResolveExt(last.language) \notin {<<>>, <<"html">>})
        => \A k \in DOMAIN files : k[2] \notin TempNames

\* the alias table of the language resolver, as the specification gives it
AliasTable ==
    {"python", "py", "javascript", "js", "typescript", "ts", "rust", "rs", "bash",
     "sh", "html"}

\* the fragments that are special commands, whatever their tag
DirectiveFragments == {"create-react-app\n", "npm start", " start-server 9090\n"}

\* the state of the disk and of the process is the one the call started in
Untouched == cwd = pre.cwd /\ dirs = pre.dirs /\ files = pre.files

\* a call on a fragment that is code, with a tag outside the alias table
UnsupportedCall ==
    /\ calls > 0
    /\ last.code \notin DirectiveFragments
    /\ ToLowercase(last.language) \notin AliasTable

\* C4: a call on a tag outside the alias table (the text not a special command)
\* never leaves the entry of execute_code_block: it returns the Unsupported
\* language error with no file written, no directory created or entered, no
\* environment provisioned and no process started.
C4_UnsupportedLeavesNoTrace ==
    UnsupportedCall =>
        /\ pc \in {"entry", "idle"}
        /\ Untouched
        /\ trace = <<>>
        /\ pc = "idle" => result = <<Err("Unsupported language: " \o last.language)>>

\* C4: a ruby fragment has been refused
C4_Witness ==
    /\ Returned
    /\ last = [code |-> "import requests\n", language |-> "ruby"]
    /\ workdir = <<"proj">>
    /\ result = <<Err("Unsupported language: ruby")>>

\* the first two direct provisioner calls are of one kind, in a directory that
\* started without that kind's marker
TwoCallsCleanDir ==
    /\ Len(provLog) >= 2
    /\ provLog[1].kind = provLog[2].kind
    /\ ~provLog[1].marker

\* C5 as claimed: two provisioner calls in succession in a directory without the
\* marker run exactly one environment-creation command between them.
C5_ExactlyOneCreation ==
    TwoCallsCleanDir => provLog[1].envCmds + provLog[2].envCmds = 1

\* C5, amended: when the first call's creation command leaves the marker on disk,
\* the two calls run exactly one environment-creation command between them and
\* the second call runs none; when it leaves no marker (it exited non-zero or could
\* not be spawned) the second call issues the creation command again.
C5_OneCreationOnceMarkerMade ==
    TwoCallsCleanDir =>
        /\ provLog[2].marker = provLog[1].made
        /\ provLog[1].made =>
              /\ provLog[1].envCmds + provLog[2].envCmds = 1
              /\ provLog[2].envCmds = 0
        /\ (~provLog[1].made /\ provLog[2].val # SpawnError) =>
              provLog[2].envCmds >= 1

\* C5: two node provisionings in a directory without package.json, the first of
\* which created it
C5_Witness ==
    /\ TwoCallsCleanDir
    /\ provLog[1].kind = "node"
    /\ provLog[1].made
    /\ provLog[1].envCmds = 1
    /\ provLog[2].envCmds = 0

\* C6: a provisioner called when its marker exists returns success without
\* running any process and without changing anything on disk.
C6_MarkerMeansNoOp ==
    \A i \in DOMAIN provLog :
        provLog[i].marker =>
            provLog[i].ok /\ provLog[i].procs = 0 /\ ~provLog[i].changed

\* a call on a fragment that is a special command
DirectiveCall == calls > 0 /\ last.code \in DirectiveFragments

\* the process is one of the two servers a directive launches
IsServerEvent(e) ==
    \/ e.cmd = "npm" /\ e.arg = "start"
    \/ e.cmd = "python" /\ e.arg = "-m http.server"

\* C7: a call on a special command, whatever its tag, never leaves the entry of
\* execute_code_block: no temp file is written, the working directory and the disk
\* stay as they were, no environment is provisioned, the language is not resolved
\* (no Unsupported language error), the one process it starts is the directive's,
\* and a server is spawned without being waited for.
C7_DirectiveBypassesEngine ==
    DirectiveCall =>
        /\ pc \in {"entry", "idle"}
        /\ Untouched
        /\ Len(trace) <= 1
        /\ \A i \in DOMAIN trace :
              /\ trace[i].cmd \in {"npx", "npm", "python"}
              /\ trace[i].arg \in {"create-react-app", "start", "-m http.server"}
              /\ IsServerEvent(trace[i]) =>
                    trace[i].mode = "spawn" /\ trace[i].exit = "none"
        /\ pc = "idle" =>
              /\ Len(trace) = 1
              /\ ~StartsWith(result[1].val, "Unsupported language")

\* C7: start-server 9090 tagged ruby has launched the server on port 9090
C7_Witness ==
    /\ Returned
    /\ last = [code |-> " start-server 9090\n", language |-> "ruby"]
    /\ result[1].ok
    /\ trace = <<Ev("python", "-m http.server", "spawn", 9090, "ok")>>

\* the diagnostics that signal a need for interactive input and no missing module
InteractiveDiagnostics == {"EOFError: EOF when reading a line"}

\* what the interactive run's outcome is as a result
InteractiveOutcome(e) ==
    IF ~e.started THEN Err(SpawnError)
    ELSE IF e.exit = "ok" THEN Ok("")
    ELSE Err("Python exited with status: " \o ExitStatus)

\* C8: after a captured Python run that failed with an end-of-input diagnostic and
\* no missing-module marker, the next and last thing the engine starts is the same
\* temp file with inherited streams, once; no package is installed after it, and
\* the outcome of that run is the result of the frame and of the call.
C8_InteractiveRunIsFinal ==
    \A i \in DOMAIN trace :
        (IsCapturedRun(trace[i]) /\ trace[i].exit = "fail"
            /\ trace[i].err \in InteractiveDiagnostics) =>
            /\ Len(trace) = i => pc = "py_interactive"
            /\ Len(trace) > i =>
                  /\ Len(trace) = i + 1
                  /\ IsInteractiveRun(trace[i + 1])
                  /\ pc \in {"cleanup", "idle"}
                  /\ pc = "cleanup" => res = <<InteractiveOutcome(trace[i + 1])>>
                  /\ pc = "idle" => result = <<InteractiveOutcome(trace[i + 1])>>
            /\ i = 1 => Positions("pip install") = {}

\* C8: the interactive run exited non-zero and that is what the call returned
C8_Witness ==
    /\ Returned
    /\ Len(trace) = 2
    /\ trace[1].err = "EOFError: EOF when reading a line"
    /\ IsInteractiveRun(trace[2]) /\ trace[2].exit = "fail"
    /\ result = <<Err("Python exited with status: exit status: 1")>>

\* the name a diagnostic quotes after No module named
QuotedName(d) ==
    IF d = "ModuleNotFoundError: No module named 'requests'" THEN "requests"
    ELSE IF d = "ImportError: No module named 'cv2'" THEN "cv2"
    ELSE ""

\* after a first run that failed on diagnostic d: name is installed next, then
\* the fragment is run again, and a successful re-execution's stdout is returned
InstallsThenReruns(name) ==
    /\ Len(trace) = 1 => pc = "py_install" /\ pkg = name
    /\ Len(trace) >= 2 => trace[2].cmd = "pip install" /\ trace[2].arg = name
    /\ Len(trace) >= 3 => IsCapturedRun(trace[3]) /\ trace[2].started
    /\ (Len(trace) >= 3 /\ trace[3].exit = "ok") =>
          /\ Len(trace) = 3
          /\ pc \in {"cleanup", "idle"}
          /\ pc = "cleanup" => res = <<Ok(trace[3].out)>>
          /\ pc = "idle" => result = <<Ok(trace[3].out)>>

\* the first thing the call started is a captured Python run that failed
FirstRunFailed ==
    Len(trace) >= 1 /\ IsCapturedRun(trace[1]) /\ trace[1].exit = "fail"

\* C9 as claimed: a first run failing with a diagnostic that contains
\* No module named '<name>' has <name> installed, then the fragment re-executed,
\* and a successful re-execution's stdout returned.
C9_PhraseTriggersInstall ==
    (FirstRunFailed /\ Contains(trace[1].err, "No module named '")) =>
        InstallsThenReruns(QuotedName(trace[1].err))

\* C9, amended: a first run failing with a diagnostic that contains both
\* ModuleNotFoundError and No module named '<name>' has <name> installed after
\* that run and before the re-execution, and a successful re-execution's
\* stdout is what the top-level call returns.
C9_MarkerAndPhraseTriggerInstall ==
    (FirstRunFailed /\ Contains(trace[1].err, "ModuleNotFoundError")
                    /\ Contains(trace[1].err, "No module named '")) =>
        InstallsThenReruns(QuotedName(trace[1].err))

\* C9: requests was installed and the re-execution's stdout returned
C9_Witness ==
    /\ Returned
    /\ Len(trace) = 3
    /\ trace[1].err = "ModuleNotFoundError: No module named 'requests'"
    /\ trace[2].cmd = "pip install" /\ trace[2].arg = "requests"
    /\ trace[3].exit = "ok"
    /\ result = <<Ok("42\n")>>

\* C10: a failed run whose diagnostic has the ModuleNotFoundError marker and no
\* quoted No module named phrase is followed by no install and no re-execution,
\* and the error returned is that diagnostic, as it is.
C10_UnextractableSurfacesDiagnostic ==
    \A i \in DOMAIN trace :
        (IsCapturedRun(trace[i]) /\ trace[i].exit = "fail"
            /\ Contains(trace[i].err, "ModuleNotFoundError")
            /\ ~Contains(trace[i].err, "No module named '")) =>
            /\ Len(trace) = i
            /\ pc \in {"cleanup", "idle"}
            /\ pc = "cleanup" => res = <<Err(trace[i].err)>>
            /\ pc = "idle" => result = <<Err(trace[i].err)>>

\* the runs of the JavaScript temp file
IsNodeRun(e) == e.cmd = "node" /\ e.arg = TempName("js")

\* the module a node diagnostic names after Cannot find module
MissingNodeModule(d) ==
    IF Contains(d, "Cannot find module '")
    THEN <<Split(Split(d, "Cannot find module '")[2], "'")[1]>>
    ELSE <<>>

\* C11: a node run that exits non-zero on a diagnostic naming a missing module is
\* followed by npm install of that module and then by one more node run of the
\* fragment; a node run that exits non-zero on any other diagnostic makes the call
\* fail with the Node.js exited with status error.
C11_NodeMissingModuleRemediated ==
    \A i \in DOMAIN trace :
        (IsNodeRun(trace[i]) /\ trace[i].exit = "fail") =>
            LET m == MissingNodeModule(trace[i].err)
            IN  IF m # <<>>
                THEN /\ Len(trace) > i
                     /\ trace[i + 1].cmd = "npm install" /\ trace[i + 1].arg = m[1]
                     /\ (Returned /\ trace[i + 1].started) =>
                           Cardinality({j \in DOMAIN trace : IsNodeRun(trace[j])}) = 2
                ELSE /\ Len(trace) = i
                     /\ Returned =>
                           result = <<Err("Node.js exited with status: " \o ExitStatus)>>

\* C12: the language match gives every upper/lower-case spelling of a tag of the
\* alias table the extension of that tag's pair (py/python, js/javascript,
\* ts/typescript, rs/rust, sh/bash, html), and fails with the Unsupported language
\* error, naming the tag as given, on every other tag: unknown names, the empty
\* tag, a tag with whitespace around it.
C12_ResolutionTotalOverAliases ==
    output # <<>> =>
        /\ \A p \in AliasPairs : input \in VariantsOf[p[1]] => output = <<Ok(p[2])>>
        /\ input \in OtherTags => output = <<Err("Unsupported language: " \o input)>>
        /\ input \notin OtherTags => \E p \in AliasPairs : input \in VariantsOf[p[1]]

\* C12: a mixed-case spelling of python has resolved to py
C12_Witness == input = "PyThOn" /\ output = <<Ok("py")>>

\* the toolchain started on the temp source file of a family
IsToolchainRun(e) ==
    \/ e.cmd = PythonPath /\ e.arg = TempName("py")
    \/ e.cmd = "node" /\ e.arg = TempName("js")
    \/ e.cmd = "npx ts-node" /\ e.arg = TempName("ts")
    \/ e.cmd = "rustc" /\ e.arg = TempName("rs")
    \/ e.cmd = "bash" /\ e.arg = TempName("sh")
    \/ e.cmd = "xdg-open" /\ e.arg = TempName("html")

\* C13: whenever the toolchain is started on the temp source file during a call
\* (the first run, the run with inherited streams, the run after an install), the
\* file exists in the working directory and holds the fragment's source, unchanged.
C13_FileHoldsSourceAtEveryRun ==
    \A i \in DOMAIN trace :
        IsToolchainRun(trace[i]) => trace[i].src = <<last.code>>

\* C13: the run after the install of requests read the source as it was written
C13_Witness ==
    /\ Returned
    /\ Len(trace) = 3
    /\ trace[2].cmd = "pip install"
    /\ IsCapturedRun(trace[3])
    /\ trace[3].src = <<"import requests\n">>
    /\ trace[1].src = trace[3].src

\* a line is a fence line: its first non-blank characters are the marker
IsFenceLine(l) == StartsWith(Trim(l), Fence)

\* the position of the k-th fence line of a response
KthFence(ls, k) ==
    LET F == {i \in DOMAIN ls : IsFenceLine(ls[i])}
    IN  CHOOSE i \in F : Cardinality({j \in F : j <= i}) = k

\* the lines strictly between positions a and b, each followed by a newline
RECURSIVE LinesBetween(_, _, _)
LinesBetween(ls, a, b) ==
    IF a + 1 >= b THEN "" ELSE ls[a + 1] \o "\n" \o LinesBetween(ls, a + 1, b)

\* the number of opening/closing pairs of fence lines
FencePairs(ls) == Cardinality({i \in DOMAIN ls : IsFenceLine(ls[i])}) \div 2

\* the text of a fence line after its marker
TextAfterMarker(l) == Drop(Trim(l), Len(Fence) + 1)

\* the marker written n times
RECURSIVE Markers(_)
Markers(n) == IF n = 0 THEN "" ELSE Fence \o Markers(n - 1)

\* t is what is left of a fence line without the whitespace around it and
\* without the markers it starts with, however many
IsTextAfterAllMarkers(t, l) ==
    /\ ~StartsWith(t, Fence)
    /\ \E n \in 1..Len(l) : Trim(l) = Markers(n) \o t

\* the blocks are one per pair of fence lines, in order, each holding the lines
\* strictly between its two fence lines, each followed by a newline
BlocksFollowFencePairs(ls, bs) ==
    /\ Len(bs) = FencePairs(ls)
    /\ \A k \in DOMAIN bs :
          bs[k][2] = LinesBetween(ls, KthFence(ls, 2 * k - 1), KthFence(ls, 2 * k))

\* C15 as claimed: extract_code_blocks returns one block per opening/closing pair
\* of fence lines, in order, the lines strictly between the two each followed by
\* a newline, nothing from outside the fences, nothing for a region left open, and
\* the tag of a block is the text after the marker of its opening fence line.
C15_TagIsTextAfterMarker ==
    output # <<>> =>
        /\ BlocksFollowFencePairs(input, output[1])
        /\ \A k \in DOMAIN output[1] :
              output[1][k][1] = TextAfterMarker(input[KthFence(input, 2 * k - 1)])

\* C15, amended: as claimed, but the tag of a block is its opening fence line
\* without the whitespace around it and without every marker it starts with:
\* a line of two markers and sh has the tag sh.
C15_TagIsTextAfterAllMarkers ==
    output # <<>> =>
        /\ BlocksFollowFencePairs(input, output[1])
        /\ \A k \in DOMAIN output[1] :
              IsTextAfterAllMarkers(output[1][k][1], input[KthFence(input, 2 * k - 1)])

\* C15: a block opened by a doubled marker, and a region left open after it
C15_Witness ==
    /\ input = <<"~~~~~~sh", "  x = 1 ", "  ~~~ js ", "~~~py">>
    /\ output = << << <<"sh", "  x = 1 \n">> >> >>

\* the blocks of the response the session is at
ResponseBlocks == IF input = <<>> THEN <<>> ELSE ExtractCodeBlocks(input[1])

\* the session's loops go on: a result that came back is reported, the block
\* after a reported one is passed on, and after the last one a prompt is read
SessionGoesOn ==
    /\ (Returned /\ stack = <<>> /\ Len(reports) < executed) => ENABLED Report
    /\ (pc = "idle" /\ Len(reports) = executed /\ executed < Len(blocks)) =>
          ENABLED RunBlock
    /\ (BlocksDone /\ prompts < MaxPrompts) =>
          ENABLED Prompt(<< <<"No code is needed.">> >>, "n\n")

BaselineRank(p) == CASE p = "pip" -> 1 [] p = "setuptools" -> 2 [] p = "wheel" -> 3

\* the attempts made for a package, and those that exited non-zero
AttemptsOf(p) == {i \in DOMAIN tries : tries[i].package = p}
FailuresOf(p) == {i \in AttemptsOf(p) : tries[i].o = "fail"}

\* the direct call of setup_python_environment that made the attempts has returned
PythonProvisioned ==
    pc = "idle" /\ provLog # <<>> /\ provLog[Len(provLog)].kind = "python"

\* C16: the upgrade is attempted for pip, setuptools, wheel in that order, at most
\* 3 times each; an attempt that succeeds is the last for its package and the
\* next attempt is for the next package; an attempt that exits non-zero is
\* followed by another for the same package until there are 3; the call fails
\* with the error naming a package exactly when 3 attempts for it exited
\* non-zero, and then no later package was attempted; the call succeeds only if
\* every package had a successful attempt.
C16_ThreeAttemptsPerPackage ==
    /\ \A i \in DOMAIN tries :
          /\ tries[i].package \in {"pip", "setuptools", "wheel"}
          /\ Cardinality(AttemptsOf(tries[i].package)) <= 3
          /\ i = 1 => tries[i].package = "pip"
          /\ i < Len(tries) =>
                LET this == BaselineRank(tries[i].package)
                    that == BaselineRank(tries[i + 1].package)
                IN  /\ tries[i].o = "ok" => that = this + 1
                    /\ tries[i].o = "fail" =>
                          that = this /\ Cardinality(FailuresOf(tries[i].package)) <= 3
                    /\ tries[i].o # "spawn_err"
    /\ PythonProvisioned =>
          LET e == provLog[Len(provLog)]
          IN  /\ \A p \in {"pip", "setuptools", "wheel"} :
                    /\ (e = [e EXCEPT !.ok = FALSE,
                                     !.val = "Failed to install " \o p \o " after 3 attempts"])
                          <=> Cardinality(FailuresOf(p)) = 3
                    /\ Cardinality(FailuresOf(p)) = 3 => tries[Len(tries)].package = p
                    /\ e.ok => \E i \in AttemptsOf(p) : tries[i].o = "ok"
              /\ (~e.ok /\ tries # <<>>) => tries[Len(tries)].o # "ok"

\* C16: pip succeeded at its third attempt, then setuptools failed three times
C16_Witness ==
    /\ PythonProvisioned
    /\ Len(tries) = 6
    /\ tries[3] = [package |-> "pip", o |-> "ok"]
    /\ FailuresOf("setuptools") = {4, 5, 6}
    /\ AttemptsOf("wheel") = {}
    /\ provLog[Len(provLog)].val = "Failed to install setuptools after 3 attempts"

\* C17: every call of execute_code_block returns, whatever the child processes
\* it waits on do, each of them exiting: a call that has been entered is
\* eventually followed by its return to the caller.
C17_EveryCallReturns == (pc = "entry" /\ Len(stack) = 1) ~> Returned

\* the compiler started on the temp source file, and the compiled binary started
IsCompile(e) == e.cmd = "rustc" /\ e.arg = TempName("rs")
IsBinaryRun(e) == e.cmd = "./temp_code"

\* C18: in a call on a rust fragment the binary is started only right after the
\* compiler exited zero in that call; when the compiler exits non-zero nothing is
\* started after it, the error of the call is the compiler's stderr as captured,
\* and once the call has returned neither the temp source file nor a binary of
\* that call is on disk.
C18_BinaryRunsOnlyAfterCompile ==
    \A i \in DOMAIN trace :
        /\ IsBinaryRun(trace[i]) =>
              i > 1 /\ IsCompile(trace[i - 1]) /\ trace[i - 1].exit = "ok"
        /\ (IsCompile(trace[i]) /\ trace[i].exit # "ok") => Len(trace) = i
        /\ (IsCompile(trace[i]) /\ trace[i].exit = "fail") =>
              /\ pc \in {"cleanup", "idle"}
              /\ pc = "cleanup" => res = <<Err(trace[i].err)>>
              /\ pc = "idle" =>
                    /\ result = <<Err(trace[i].err)>>
                    /\ \A k \in DOMAIN files \ DOMAIN pre.files :
                          k[2] \notin {TempName("rs"), BinaryName}
                    /\ FileKey(Resolve(pre.cwd, UnwrapOr(workdir, ".")), TempName("rs"))
                          \notin DOMAIN files

\* C18: a rust fragment did not compile, and the diagnostic came back
C18_Witness ==
    /\ Returned
    /\ workdir = <<"proj">>
    /\ Len(trace) = 1
    /\ IsCompile(trace[1]) /\ trace[1].exit = "fail"
    /\ trace[1].src = <<"import requests\n">>
    /\ result = <<Err("error[E0425]: cannot find value x in this scope")>>
    /\ files = <<>>

\* the points of the dispatch closure at which a runtime family is provisioned
ProvisioningPoints == {"py_venv", "py_upgrade", "node_setup", "ts_tools"}

\* the errors a provisioner returns
ProvisioningErrors ==
    {SpawnError} \cup {"Failed to install " \o Packages[i] \o " after 3 attempts" :
                          i \in DOMAIN Packages}

\* the step is a provisioning that fails: the closure ends from a provisioning point
ProvisioningFails == pc \in ProvisioningPoints /\ pc' = "cleanup"

\* the top-level call returned because the provisioning of its fragment failed:
\* it started nothing, or the last thing it tried to start is an on-demand
\* install of the TypeScript tools that could not be started
ProvisioningFailed ==
    /\ Returned
    /\ SpecialCommand(last.code) = ""
    /\ ResolveExt(last.language) \in {<<"py">>, <<"js">>, <<"ts">>}
    /\ ~result[1].ok
    /\ result[1].val \in ProvisioningErrors
    /\ \/ trace = <<>>
       \/ /\ ResolveExt(last.language) = <<"ts">>
          /\ trace[Len(trace)].cmd = "npm install"
          /\ ~trace[Len(trace)].started

\* C19: when the provisioning of the fragment's runtime family fails, the closure
\* ends there with the provisioner's error, and no interpreter or runtime is
\* started on the temp file in that step or after it; once the call has returned,
\* the error returned is the provisioner's, the temp file is not on disk, and the
\* working directory is the one before the call.
C19_ProvisioningFailureSkipsRun ==
    /\ [][ProvisioningFails =>
            /\ res' # <<>> /\ ~res'[1].ok /\ res'[1].val \in ProvisioningErrors
            /\ \A i \in DOMAIN trace' \ DOMAIN trace : ~IsToolchainRun(trace'[i])]_vars
    /\ [](pc = "cleanup" => ~(ENABLED PyRun \/ ENABLED JsRun \/ ENABLED TsRun))
    /\ [](ProvisioningFailed =>
            /\ \A i \in DOMAIN trace : ~IsToolchainRun(trace[i])
            /\ \A k \in DOMAIN files \ DOMAIN pre.files : k[2] \notin TempNames
            /\ cwd = pre.cwd)

\* the last thing the call started is a toolchain run whose stderr the engine
\* captured (the Python run, the compiler run), and it exited non-zero
EndedOnCapturedFailure ==
    /\ trace # <<>>
    /\ LET e == trace[Len(trace)]
       IN  /\ IsCapturedRun(e) \/ IsCompile(e)
           /\ e.exit = "fail"

\* C20: the error a failed call returns is never empty, and when the call ended
\* on a toolchain run whose stderr the engine captured, the error contains that
\* stderr as it was captured.
C20_DiagnosticPreserved ==
    (Returned /\ ~result[1].ok) =>
        /\ result[1].val # ""
        /\ EndedOnCapturedFailure => Contains(result[1].val, trace[Len(trace)].err)

\* the port a second token stands for when it is an integer in 0..65535 written
\* in decimal digits, with or without a plus sign
PortOfToken ==
    [t \in {"0", "1", "80", "080", "+80", "8000", "8080", "65535"} |->
        CASE t = "0" -> 0
          [] t = "1" -> 1
          [] t \in {"80", "080", "+80"} -> 80
          [] t = "8000" -> 8000
          [] t = "8080" -> 8080
          [] t = "65535" -> 65535]

\* C21: the port given to the static file server by a start-server directive is
\* the value of its second whitespace-separated token when that token is an
\* integer in 0..65535, and 8000 in every other case: no second token, a token
\* that is not a number, a token with a minus sign, a number above 65535.
C21_PortIsSecondTokenOr8000 ==
    output # <<>> =>
        output[1] = IF input.tok \in DOMAIN PortOfToken THEN PortOfToken[input.tok]
                    ELSE 8000

\* C21: the second token 65535 is the port, whatever follows it
C21_Witness ==
    /\ input = [head |-> "  start-server", gap |-> "\t ", tok |-> "65535",
                 tail |-> " 9090"]
    /\ output = <<65535>>

\* the absolute directory the override names when the session starts
SessionDir == IF workdir = <<>> THEN StartDir ELSE Resolve(StartDir, workdir[1])

\* the temp source files of every family
SourceNames == {TempName(x) : x \in {"py", "js", "ts", "rs", "sh", "html"}}

\* C22: in a session with one working-directory override, every fragment's temp
\* file is written in the directory the override named when the session started,
\* and that is the working directory for as long as the fragment is executed,
\* whatever the fragments before it returned.
C22_ExecutionDirectoryDoesNotDrift ==
    /\ pc \notin {"idle", "entry"} => cwd = SessionDir
    /\ \A k \in DOMAIN files : k[2] \in SourceNames => k[1] = SessionDir

\* a captured run of the temp file that failed with this marker in its stderr
FailedWith(e, marker) ==
    IsCapturedRun(e) /\ e.exit = "fail" /\ Contains(e.err, marker)

\* C23: a captured Python run that fails with ModuleNotFoundError in its stderr
\* is followed, at that level, by the remediation (the install of the extracted
\* name, or the end of the call when no name can be extracted) and never by the
\* run with inherited streams, whatever else the stderr contains; the run with
\* inherited streams only ever follows a failed captured run whose stderr has
\* no ModuleNotFoundError and has an end-of-input marker.
C23_MissingModuleBeforeInteractive ==
    /\ \A i \in DOMAIN trace :
          FailedWith(trace[i], "ModuleNotFoundError") =>
             /\ i < Len(trace) => trace[i + 1].cmd = "pip install"
             /\ i = Len(trace) => pc \in {"py_install", "cleanup", "idle"}
    /\ \A j \in DOMAIN trace :
          IsInteractiveRun(trace[j]) =>
             /\ j > 1
             /\ IsCapturedRun(trace[j - 1]) /\ trace[j - 1].exit = "fail"
             /\ ~Contains(trace[j - 1].err, "ModuleNotFoundError")
             /\ NeedsInteractive(trace[j - 1].err)
    /\ pc = "py_interactive" =>
          /\ trace # <<>>
          /\ IsCapturedRun(trace[Len(trace)])
          /\ ~Contains(trace[Len(trace)].err, "ModuleNotFoundError")

\* C23: a run failed with both markers in its stderr and the call ended in the
\* remediation's error, with no run on inherited streams
C23_Witness ==
    /\ Returned
    /\ Len(trace) = 1
    /\ FailedWith(trace[1], "ModuleNotFoundError")
    /\ FailedWith(trace[1], "EOF")
    /\ result = <<Err("Could not extract package name")>>

\* the frame handle_python_error pushes: the same fragment, as python, with no
\* working directory
Reexecution == [code |-> Top.code, language |-> "python", workdir |-> <<>>]

\* the value an ended call holds
Outcome == IF pc = "idle" THEN result ELSE res

\* C24, the step: the install attempt of the extracted name is followed by the
\* call that re-executes the fragment exactly when the install command was
\* started, whatever its exit status; when it could not be started the call
\* yields the spawn error and no call is made.
C24_InstallStep ==
    pc = "py_install" =>
        LET e == trace'[Len(trace')]
        IN  /\ Len(trace') = Len(trace) + 1
            /\ e.cmd = "pip install" /\ e.arg = pkg
            /\ e.started <=> (pc' = "entry" /\ stack' = Append(stack, Reexecution))
            /\ ~e.started <=> (pc' = "cleanup" /\ stack' = stack
                                 /\ res' = <<Err(SpawnError)>>)

\* C24, the history: an install that could not be started is the call's last
\* process and the call ends with the spawn error; the process after a started
\* install, whether it exited with zero or not, is the captured run of the temp
\* file holding the fragment; and a second or later captured run only follows
\* a started install.
C24_InstallHistory ==
    /\ \A i \in Positions("pip install") :
          /\ ~trace[i].started =>
                /\ i = Len(trace)
                /\ pc \in {"cleanup", "idle"}
                /\ Outcome = <<Err(SpawnError)>>
          /\ (trace[i].started /\ i < Len(trace)) =>
                /\ IsCapturedRun(trace[i + 1])
                /\ trace[i + 1].src = <<last.code>>
    /\ \A j \in DOMAIN trace :
          (j > 1 /\ IsCapturedRun(trace[j])) =>
              trace[j - 1].cmd = "pip install" /\ trace[j - 1].started

\* C24: after a missing-module classification with an extracted name, the
\* fragment is re-executed if and only if the install command could be started:
\* a non-zero exit of the install is no failure, a failed spawn is returned.
C24_ReexecutedIffInstallStarted ==
    []C24_InstallHistory /\ [][C24_InstallStep]_vars

\* C24: the install of requests exited with a non-zero status and the fragment
\* was run again
C24_Witness ==
    /\ Len(trace) = 3
    /\ trace[2].cmd = "pip install" /\ trace[2].arg = "requests"
    /\ trace[2].started /\ trace[2].exit = "fail"
    /\ IsCapturedRun(trace[3])
====
